---- MODULE Spec2Model ----
(***************************************************************************)
(* Model of the preprocessing pipeline of green_trap_analysis              *)
(* (src/preprocessor.py): smart_imputation, create_derived_features,       *)
(* final_cleaning and main, over a small country x year panel.             *)
(*                                                                         *)
(* A cell of the panel is an optional exact rational: NA (pandas NaN) is   *)
(* the empty tuple, a number is the pair <<numerator, denominator>> in     *)
(* lowest terms with a positive denominator.                               *)
(***************************************************************************)
EXTENDS Integers, Sequences, FiniteSets, TLC

VARIABLES
    raw,      \* the panel handed to the first stage
    df,       \* the frame held by the pipeline
    columns,  \* df.columns without Country_Code and Year
    mode,     \* "main": main() runs the stages; "call": final_cleaning
              \* is called directly on a panel
    pc,       \* the stage that runs next
    report,   \* the removal counts logged so far
    saved,    \* the csv files written so far
    entry,        \* the loader function that was called
    chunk_years,  \* its arguments
    max_retries,
    delay,
    lpc,          \* where the loader stands
    chunk_i,      \* i, the index of the chunk loop into years (0-based)
    chunk,        \* <<chunk_start, chunk_end>> of the current iteration
    requested,    \* the year ranges the chunk loop has asked for so far
    all_chunks,   \* len(all_chunks)
    attempt,      \* the loop variable of fetch_with_retry
    log,          \* the requests and sleeps of the current fetch_with_retry
    result        \* what the called function returned

pvars == <<raw, df, columns, mode, pc, report, saved>>

lvars == <<entry, chunk_years, max_retries, delay, lpc, chunk_i, chunk, requested,
           all_chunks, attempt, log, result>>

vars == <<raw, df, columns, mode, pc, report, saved,
          entry, chunk_years, max_retries, delay, lpc, chunk_i, chunk, requested,
          all_chunks, attempt, log, result>>

-----------------------------------------------------------------------------
(* Bounds of the model *)

MaxLen == 7
MaxRows == 2
MaxYears == 4
MaxGroup == 2
MaxDerive == 3
MaxSkip == 2
MaxOrder == 6
MaxChunk == 25
MaxRetries == 3

-----------------------------------------------------------------------------
(* Optional rational numbers *)

NA == <<>>

IsNA(x) == x = NA

Abs(n) == IF n < 0 THEN 0 - n ELSE n

RECURSIVE GCD(_, _)
GCD(a, b) == IF b = 0 THEN a ELSE GCD(b, a % b)

Rat(n, d) ==
    LET s == IF d < 0 THEN 0 - 1 ELSE 1
        g == GCD(Abs(n), Abs(d))
    IN  <<(s * n) \div g, (s * d) \div g>>

Num(n) == <<n, 1>>

RAdd(x, y) == Rat(x[1] * y[2] + y[1] * x[2], x[2] * y[2])
RSub(x, y) == Rat(x[1] * y[2] - y[1] * x[2], x[2] * y[2])
RMul(x, y) == Rat(x[1] * y[1], x[2] * y[2])
RDivInt(x, k) == Rat(x[1], x[2] * k)
RLt(x, y) == x[1] * y[2] < y[1] * x[2]
RLe(x, y) == x[1] * y[2] <= y[1] * x[2]
RAbs(x) == <<Abs(x[1]), x[2]>>

\* NaN-propagating arithmetic of pandas columns
OSub(x, y) == IF IsNA(x) \/ IsNA(y) THEN NA ELSE RSub(x, y)

-----------------------------------------------------------------------------
(* Configuration (config.py) *)

NO_INTERPOLATE ==
    {"Inflation_CPI_Pct", "GDP_Growth_Pct", "Broad_Money_Growth_Pct",
     "GHG_Emissions_Growth_Pct", "GDP_Deflator_Growth_Pct",
     "Real_Interest_Rate_Pct"}

FORWARD_FILL_OK ==
    {"Renewable_Energy_Consumption_Pct", "Fossil_Fuel_Consumption_Pct",
     "Energy_Intensity_Primary_MJ_Per_GDP", "Population_Total",
     "Manufacturing_Value_Added_Pct_GDP"}

GREEN_VARS ==
    {"Renewable_Energy_Consumption_Pct", "Renewable_Electricity_Output_Pct",
     "Renewable_Electricity_NoHydro_Pct", "Fossil_Fuel_Consumption_Pct",
     "Alternative_Nuclear_Energy_Pct"}

START_YEAR == 2000
END_YEAR == 2023

\* PERIOD_LABELS: (first year, last year) -> label
PERIOD_LABELS ==
    <<[lo |-> 2000, hi |-> 2007, label |-> "Pre_Crisis"],
      [lo |-> 2008, hi |-> 2009, label |-> "Global_Financial_Crisis"],
      [lo |-> 2010, hi |-> 2019, label |-> "Recovery_Green_Transition"],
      [lo |-> 2020, hi |-> 2021, label |-> "Pandemic"],
      [lo |-> 2022, hi |-> 2023, label |-> "Energy_Crisis_High_Inflation"]>>

TURKEY_PEERS_EMERGING == {"TUR", "POL", "MEX", "ZAF", "THA"}
FAST_GROWING == {"CHN", "IND", "VNM", "BGD", "PHL"}
GREEN_LEADERS == {"DEU", "DNK", "SWE", "NLD", "NOR"}
ENERGY_DEPENDENT == {"RUS", "SAU", "NOR", "CAN", "AUS"}
SOUTHERN_EUROPE == {"ITA", "ESP", "GRC", "PRT"}
ASIAN_EMERGING == {"IDN", "MYS", "THA", "PHL", "VNM"}
OTHER_COUNTRIES == {"USA", "JPN", "GBR", "FRA", "BRA", "KOR", "CHL", "NZL"}

ALL_COUNTRIES ==
    TURKEY_PEERS_EMERGING \cup FAST_GROWING \cup GREEN_LEADERS
    \cup ENERGY_DEPENDENT \cup SOUTHERN_EUROPE \cup ASIAN_EMERGING
    \cup OTHER_COUNTRIES

\* COUNTRY_GROUPS[c] for c in ALL_COUNTRIES
COUNTRY_GROUPS(c) ==
    IF c = "TUR" THEN "Turkey_Focus"
    ELSE IF c \in GREEN_LEADERS THEN "Green_Leaders"
    ELSE IF c \in FAST_GROWING THEN "Fast_Growing"
    ELSE IF c \in ENERGY_DEPENDENT THEN "Energy_Dependent"
    ELSE IF c \in TURKEY_PEERS_EMERGING THEN "Turkey_Peers"
    ELSE IF c \in SOUTHERN_EUROPE THEN "Southern_Europe"
    ELSE IF c \in ASIAN_EMERGING THEN "Asian_Emerging"
    ELSE "Other_Advanced"

ENERGY_IMPORTERS ==
    {"TUR", "DEU", "ITA", "ESP", "JPN", "KOR", "IND", "CHN", "GRC", "PRT",
     "THA", "PHL"}

OUTLIER_THRESHOLD_INFLATION == 100
OUTLIER_THRESHOLD_GDP_GROWTH == 20

\* the raw indicator columns the model carries
RawColumns ==
    {"Inflation_CPI_Pct", "GDP_Growth_Pct", "Broad_Money_Growth_Pct",
     "Renewable_Energy_Consumption_Pct", "Energy_Imports_Net_Pct",
     "CO2_Emissions_Per_Capita_Tons"}

\* country codes of the model in the order sort_values puts them
CountryOrder == <<"AAA", "BBB", "DEU", "POL", "TUR", "USA">>

CountryRank(c) == CHOOSE k \in 1..Len(CountryOrder) : CountryOrder[k] = c

-----------------------------------------------------------------------------
(* The data frame: a sequence of rows [cc, yr, v], v maps column -> cell *)

RowLess(r, s) ==
    \/ CountryRank(r.cc) < CountryRank(s.cc)
    \/ r.cc = s.cc /\ r.yr < s.yr

\* insert r after every row that is not greater (stable)
RECURSIVE InsertRow(_, _)
InsertRow(r, s) ==
    IF s = <<>> THEN <<r>>
    ELSE IF RowLess(r, Head(s)) THEN <<r>> \o s
    ELSE <<Head(s)>> \o InsertRow(r, Tail(s))

RECURSIVE SortValues(_)
SortValues(d) ==
    IF d = <<>> THEN <<>>
    ELSE InsertRow(d[Len(d)], SortValues(SubSeq(d, 1, Len(d) - 1)))

\* groupby('Country_Code'): the key of a row
GroupKeyNone(r) == "ALL"

GroupKey(r) == r.cc

\* the values of column col in the rows of the group k, in frame order
GroupSeries(d, col, k) ==
    LET g == SelectSeq(d, LAMBDA r : GroupKey(r) = k)
    IN  [j \in 1..Len(g) |-> g[j].v[col]]

\* position of row i inside its group
GroupPos(d, i) == Cardinality({j \in 1..i : GroupKey(d[j]) = GroupKey(d[i])})

\* df[vars] = df.groupby('Country_Code')[vars].<F>()
GroupApply(d, cs, F(_)) ==
    [i \in 1..Len(d) |->
        [d[i] EXCEPT !.v =
            [c \in DOMAIN d[i].v |->
                IF c \in cs
                THEN F(GroupSeries(d, c, GroupKey(d[i])))[GroupPos(d, i)]
                ELSE d[i].v[c]]]]

-----------------------------------------------------------------------------
(* Series fills (pandas ffill / bfill / interpolate) *)

HasPrev(s, i) == \E j \in 1..(i - 1) : ~IsNA(s[j])
PrevIdx(s, i) == CHOOSE j \in 1..(i - 1) :
                    ~IsNA(s[j]) /\ \A m \in (j + 1)..(i - 1) : IsNA(s[m])
HasNext(s, i) == \E j \in (i + 1)..Len(s) : ~IsNA(s[j])
NextIdx(s, i) == CHOOSE j \in (i + 1)..Len(s) :
                    ~IsNA(s[j]) /\ \A m \in (i + 1)..(j - 1) : IsNA(s[m])

\* Series.ffill(limit)
FFill(s, limit) ==
    [i \in 1..Len(s) |->
        IF ~IsNA(s[i]) THEN s[i]
        ELSE IF HasPrev(s, i) /\ i - PrevIdx(s, i) <= limit
             THEN s[PrevIdx(s, i)]
             ELSE NA]

\* bfill that ignores its limit
BFillNoLimit(s, limit) ==
    [i \in 1..Len(s) |->
        IF ~IsNA(s[i]) THEN s[i]
        ELSE IF HasNext(s, i) THEN s[NextIdx(s, i)] ELSE NA]

\* Series.bfill(limit)
BFill(s, limit) ==
    [i \in 1..Len(s) |->
        IF ~IsNA(s[i]) THEN s[i]
        ELSE IF HasNext(s, i) /\ NextIdx(s, i) - i <= limit
             THEN s[NextIdx(s, i)]
             ELSE NA]

\* interpolate without limit_area: trailing cells take the last known value
InterpolateNoArea(s, limit) ==
    [i \in 1..Len(s) |->
        IF ~IsNA(s[i]) THEN s[i]
        ELSE IF HasPrev(s, i) /\ i - PrevIdx(s, i) <= limit
             THEN LET j == PrevIdx(s, i)
                  IN  IF HasNext(s, i)
                      THEN RAdd(s[j],
                                RDivInt(RMul(Num(i - j),
                                             RSub(s[NextIdx(s, i)], s[j])),
                                        NextIdx(s, i) - j))
                      ELSE s[j]
             ELSE NA]

\* Series.interpolate(method='linear', limit, limit_area='inside'),
\* limit_direction forward: the first `limit` cells of every interior gap
InterpolateInside(s, limit) ==
    [i \in 1..Len(s) |->
        IF ~IsNA(s[i]) THEN s[i]
        ELSE IF HasPrev(s, i) /\ HasNext(s, i) /\ i - PrevIdx(s, i) <= limit
             THEN LET j == PrevIdx(s, i)
                      k == NextIdx(s, i)
                  IN  RAdd(s[j],
                           RDivInt(RMul(Num(i - j), RSub(s[k], s[j])), k - j))
             ELSE NA]

-----------------------------------------------------------------------------
(* smart_imputation *)

\* the forward-fill list cut at its first column that is not in the frame
ff_varsUntilMissing(cols) ==
    LET order == <<"Renewable_Energy_Consumption_Pct",
                   "Fossil_Fuel_Consumption_Pct",
                   "Energy_Intensity_Primary_MJ_Per_GDP", "Population_Total",
                   "Manufacturing_Value_Added_Pct_GDP">>
    IN  {order[j] : j \in {k \in 1..Len(order) :
                              \A m \in 1..k : order[m] \in cols}}

\* ff_vars = [v for v in config.FORWARD_FILL_OK if v in df.columns]
ff_vars(cols) == FORWARD_FILL_OK \cap cols

interpolate_vars(cols) == (cols \ NO_INTERPOLATE) \ FORWARD_FILL_OK

\* 1. forward fill of the structural variables, limit 3
ForwardFillPass(d, cols) ==
    GroupApply(d, ff_vars(cols), LAMBDA s : FFill(s, 3))

\* 3. linear interpolation of the remaining numeric variables, limit 2
InterpolatePass(d, cols) ==
    GroupApply(d, interpolate_vars(cols), LAMBDA s : InterpolateInside(s, 2))

\* 4. one backward fill over both lists, limit 1
BackwardFillAllCols(cols) == cols

BackwardFillCols(cols) == ff_vars(cols) \cup interpolate_vars(cols)

BackwardFillPass(d, cols) ==
    GroupApply(d, BackwardFillCols(cols), LAMBDA s : BFill(s, 1))

\* the three passes with the backward fill run first
FillPassesBackwardFirst(d, cols) ==
    InterpolatePass(
        ForwardFillPass(BackwardFillPass(SortValues(d), cols), cols), cols)

\* the frame after the three fill passes, before the outcome rule
FillPasses(d, cols) ==
    BackwardFillPass(
        InterpolatePass(ForwardFillPass(SortValues(d), cols), cols), cols)

outcome_vars == {"Inflation_CPI_Pct", "GDP_Growth_Pct"}

existing_outcomes(cols) == outcome_vars \cap cols

\* DataFrame.dropna(subset, how='any') and its how='all' variant
DropNaAll(d, subset) ==
    SelectSeq(d, LAMBDA r : \E c \in subset : ~IsNA(r.v[c]))

DropNaAny(d, subset) ==
    SelectSeq(d, LAMBDA r : \A c \in subset : ~IsNA(r.v[c]))

\* 5. rows with a missing outcome variable are dropped
OutcomeRuleAll(d, cols) ==
    IF existing_outcomes(cols) # {}
    THEN DropNaAll(d, existing_outcomes(cols))
    ELSE d

OutcomeRule(d, cols) ==
    IF existing_outcomes(cols) # {}
    THEN DropNaAny(d, existing_outcomes(cols))
    ELSE d

SmartImputationDf(d, cols) == OutcomeRule(FillPasses(d, cols), cols)

\* the "Dropped N rows with missing outcome variables" log line
SmartImputationReport(d, cols) ==
    IF existing_outcomes(cols) # {}
    THEN <<[rule |-> "outcome_missing",
            n |-> Len(FillPasses(d, cols)) - Len(SmartImputationDf(d, cols))]>>
    ELSE <<>>

-----------------------------------------------------------------------------
(* create_derived_features *)

\* NaN-propagating division; x/0 is +-inf (denominator 0), 0/0 is NaN
ODiv(x, y) ==
    IF IsNA(x) \/ IsNA(y) THEN NA
    ELSE IF x[1] = 0 /\ y[1] = 0 THEN NA
    ELSE Rat(x[1] * y[2], x[2] * y[1])

\* SeriesGroupBy.diff()
Diff(s) == [i \in 1..Len(s) |-> IF i = 1 THEN NA ELSE OSub(s[i], s[i - 1])]

\* SeriesGroupBy.shift(k): the value k rows earlier in the group
Shift(s, k) == [i \in 1..Len(s) |-> IF i <= k THEN NA ELSE s[i - k]]

RECURSIVE RSum(_, _, _)
\* sum of F(s[j]) over the non-missing cells j in lo..hi
RSum(s, lo, hi) ==
    IF hi < lo THEN Num(0)
    ELSE IF IsNA(s[hi]) THEN RSum(s, lo, hi - 1)
    ELSE RAdd(s[hi], RSum(s, lo, hi - 1))

\* x.rolling(w, min_periods).std(): the column stores the exact square of
\* the sample standard deviation (ddof = 1) of the non-missing cells of the
\* trailing window of w rows, NA when fewer than minp cells are present
RollingStdSq(s, w, minp) ==
    [i \in 1..Len(s) |->
        LET lo == IF i - w + 1 < 1 THEN 1 ELSE i - w + 1
            n  == Cardinality({j \in lo..i : ~IsNA(s[j])})
            sq == [j \in 1..Len(s) |-> IF IsNA(s[j]) THEN NA ELSE RMul(s[j], s[j])]
            sm == RSum(s, lo, i)
        IN  IF n < minp \/ n < 2 THEN NA
            ELSE RDivInt(RSub(RMul(Num(n), RSum(sq, lo, i)), RMul(sm, sm)),
                         n * (n - 1))]

\* SeriesGroupBy.pct_change() with its default fill_method (pandas 1.x and
\* 2.x): the group is forward filled without limit, then
\* filled / filled.shift(1) - 1
PctChange(s) ==
    LET filled == FFill(s, Len(s))
    IN  [i \in 1..Len(s) |->
            IF i = 1 THEN NA
            ELSE OSub(ODiv(filled[i], filled[i - 1]), Num(1))]

\* df[new] = df.groupby('Country_Code')[src].<F>()
AddGroupColumn(d, cols, new, src, F(_)) ==
    IF src \notin cols THEN d
    ELSE [i \in 1..Len(d) |->
            [d[i] EXCEPT !.v =
                (new :> F(GroupSeries(d, src, GroupKey(d[i])))[GroupPos(d, i)])
                @@ d[i].v]]

AddedColumn(cols, new, src) == IF src \in cols THEN cols \cup {new} ELSE cols

lag_vars ==
    <<"Renewable_Energy_Consumption_Pct", "Energy_Imports_Net_Pct",
      "Broad_Money_Growth_Pct", "Green_Transition_Speed">>

Lag1Name(var) ==
    CASE var = "Renewable_Energy_Consumption_Pct" -> "Renewable_Energy_Consumption_Pct_Lag1"
      [] var = "Energy_Imports_Net_Pct" -> "Energy_Imports_Net_Pct_Lag1"
      [] var = "Broad_Money_Growth_Pct" -> "Broad_Money_Growth_Pct_Lag1"
      [] var = "Green_Transition_Speed" -> "Green_Transition_Speed_Lag1"

Lag2Name(var) ==
    CASE var = "Renewable_Energy_Consumption_Pct" -> "Renewable_Energy_Consumption_Pct_Lag2"
      [] var = "Energy_Imports_Net_Pct" -> "Energy_Imports_Net_Pct_Lag2"
      [] var = "Broad_Money_Growth_Pct" -> "Broad_Money_Growth_Pct_Lag2"
      [] var = "Green_Transition_Speed" -> "Green_Transition_Speed_Lag2"

LagName(var, k) == IF k = 1 THEN Lag1Name(var) ELSE Lag2Name(var)

\* NaN-propagating product of two columns
OMul(x, y) == IF IsNA(x) \/ IsNA(y) THEN NA ELSE RMul(x, y)

\* (boolean column).astype(int)
AsInt(b) == IF b THEN Num(1) ELSE Num(0)

\* column < k: a comparison with NaN is False
Less(x, k) == ~IsNA(x) /\ RLt(x, Num(k))

\* np.log1p: ln(1 + n/d) is kept as the term <<"log1p", n, d>> for n/d > -1,
\* it is -inf at -1 and NaN below -1
Log1p(x) ==
    IF IsNA(x) THEN NA
    ELSE IF RLt(x, Num(0 - 1)) THEN NA
    ELSE IF x = Num(0 - 1) THEN <<0 - 1, 0>>
    ELSE <<"log1p", x[1], x[2]>>

\* product of a number x and a logarithm l: the term
\* <<"mul", x[1], x[2], l[2], l[3]>>, with the IEEE rules for an infinite
\* factor
MulLog(x, l) ==
    IF IsNA(x) \/ IsNA(l) THEN NA
    ELSE IF l = <<0 - 1, 0>>
         THEN IF x[1] = 0 THEN NA
              ELSE IF x[1] > 0 THEN <<0 - 1, 0>> ELSE <<1, 0>>
    ELSE <<"mul", x[1], x[2], l[2], l[3]>>

\* pd.cut(y, bins, labels): the label of the interval (bins[k], bins[k+1]]
\* that holds y, NaN when no interval does
Cut(y, bins, labels) ==
    IF \E k \in 1..Len(labels) : bins[k] < y /\ y <= bins[k + 1]
    THEN <<labels[CHOOSE k \in 1..Len(labels) : bins[k] < y /\ y <= bins[k + 1]]>>
    ELSE NA

PeriodBins == <<1999, 2007, 2009, 2019, 2021, 2024>>

PeriodBinLabels ==
    <<"Pre_Crisis", "Financial_Crisis", "Recovery_Green", "Pandemic",
      "Energy_Crisis">>

\* the row-wise derivations, each the value of the new column in row r
Energy_Vulnerability_Index(r) ==
    LET x == OMul(r.v["Energy_Imports_Net_Pct"],
                  r.v["Energy_Intensity_Primary_MJ_Per_GDP"])
    IN  IF IsNA(x) THEN NA ELSE RDivInt(x, 100)

Fuel_Import_Exposure(r) ==
    LET x == OMul(r.v["Fuel_Imports_Pct_Merchandise"], r.v["Trade_Pct_GDP"])
    IN  IF IsNA(x) THEN NA ELSE RDivInt(x, 100)

Is_Energy_Importer(r) == AsInt(r.cc \in ENERGY_IMPORTERS)

Log_GDP_Per_Capita(r) == Log1p(r.v["GDP_Per_Capita_PPP"])

CA_Deficit_Dummy(r) ==
    AsInt(Less(r.v["Current_Account_Balance_Pct_GDP"], 0 - 3))

Period(r) == Cut(r.yr, PeriodBins, PeriodBinLabels)

Post_2020(r) == AsInt(r.yr >= 2020)

\* Series.map(dict): NaN for a key the dict does not hold
Country_Group(r) ==
    IF r.cc \in ALL_COUNTRIES THEN <<COUNTRY_GROUPS(r.cc)>> ELSE NA

Is_Turkey(r) == AsInt(r.cc = "TUR")

Is_Green_Leader(r) == AsInt(r.cc \in GREEN_LEADERS)

\* the peer dummy read off the analytical group of the country
Is_Turkey_PeerByGroup(r) ==
    AsInt(r.cc \in ALL_COUNTRIES /\ COUNTRY_GROUPS(r.cc) = "Turkey_Peers")

Is_Turkey_Peer(r) == AsInt(r.cc \in TURKEY_PEERS_EMERGING)

Green_X_Importer(r) ==
    OMul(r.v["Renewable_Energy_Consumption_Pct"], r.v["Is_Energy_Importer"])

Green_X_Development(r) ==
    MulLog(r.v["Renewable_Energy_Consumption_Pct"], r.v["Log_GDP_Per_Capita"])

Green_X_Post2020(r) ==
    OMul(r.v["Renewable_Energy_Consumption_Pct"], r.v["Post_2020"])

\* the least non-missing value of the rows of the country of r
Carbon_Efficiency_FrontierByCountry(d, r) ==
    LET S == {d[j].v["Carbon_Intensity_CO2_Per_GDP"] : j \in
                {k \in 1..Len(d) :
                    /\ d[k].cc = r.cc
                    /\ ~IsNA(d[k].v["Carbon_Intensity_CO2_Per_GDP"])}}
    IN  IF S = {} THEN NA ELSE CHOOSE x \in S : \A y \in S : RLe(x, y)

\* groupby('Year')[col].transform('min'): the least non-missing value of the
\* rows of the year of r, NaN when the year has none
Carbon_Efficiency_Frontier(d, r) ==
    LET S == {d[j].v["Carbon_Intensity_CO2_Per_GDP"] : j \in
                {k \in 1..Len(d) :
                    /\ d[k].yr = r.yr
                    /\ ~IsNA(d[k].v["Carbon_Intensity_CO2_Per_GDP"])}}
    IN  IF S = {} THEN NA ELSE CHOOSE x \in S : \A y \in S : RLe(x, y)

Carbon_Efficiency_Gap(r) ==
    ODiv(r.v["Carbon_Intensity_CO2_Per_GDP"], r.v["Carbon_Efficiency_Frontier"])

\* the column np.log1p is assigned to
LogTargetInPlace == "GDP_Per_Capita_PPP"

LogTarget == "Log_GDP_Per_Capita"

\* the frame and its column set, threaded through the derivations
Frame(d, cols) == [d |-> d, cols |-> cols]

Derive(f, new, src, F(_)) ==
    Frame(AddGroupColumn(f.d, f.cols, new, src, F), AddedColumn(f.cols, new, src))

\* if srcs are all columns of the frame: df[new] = F(row)
DeriveRow(f, new, srcs, F(_)) ==
    IF srcs \subseteq f.cols
    THEN Frame([i \in 1..Len(f.d) |->
                  [f.d[i] EXCEPT !.v = (new :> F(f.d[i])) @@ f.d[i].v]],
               f.cols \cup {new})
    ELSE f

RECURSIVE AddLags(_, _)
\* for var in lag_vars[n..]: _Lag1 and _Lag2
AddLags(f, n) ==
    IF n > Len(lag_vars) THEN f
    ELSE LET var == lag_vars[n]
             f1 == Derive(f, Lag1Name(var), var, LAMBDA s : Shift(s, 1))
             f2 == Derive(f1, Lag2Name(var), var, LAMBDA s : Shift(s, 2))
         IN  AddLags(f2, n + 1)

\* 1. green transition dynamics
GreenDynamics(f) ==
    LET f1 == Derive(f, "Green_Transition_Speed",
                     "Renewable_Energy_Consumption_Pct", Diff)
        f2 == Derive(f1, "Modern_Renewables_Growth",
                     "Renewable_Electricity_NoHydro_Pct", Diff)
    IN  Derive(f2, "Fossil_Reduction_Rate", "Fossil_Fuel_Consumption_Pct", Diff)

\* 2. energy vulnerability
EnergyVulnerability(f) ==
    LET f1 == DeriveRow(f, "Energy_Vulnerability_Index",
                        {"Energy_Imports_Net_Pct",
                         "Energy_Intensity_Primary_MJ_Per_GDP"},
                        Energy_Vulnerability_Index)
        f2 == DeriveRow(f1, "Fuel_Import_Exposure",
                        {"Fuel_Imports_Pct_Merchandise", "Trade_Pct_GDP"},
                        Fuel_Import_Exposure)
    IN  DeriveRow(f2, "Is_Energy_Importer", {}, Is_Energy_Importer)

\* 3. macroeconomic indicators
MacroIndicators(f) ==
    LET f1 == DeriveRow(f, LogTarget, {"GDP_Per_Capita_PPP"}, Log_GDP_Per_Capita)
        f2 == Derive(f1, "Inflation_Volatility_3Y", "Inflation_CPI_Pct",
                     LAMBDA s : RollingStdSq(s, 3, 2))
        f3 == Derive(f2, "GDP_Growth_Volatility_3Y", "GDP_Growth_Pct",
                     LAMBDA s : RollingStdSq(s, 3, 2))
        f4 == Derive(f3, "REER_Change", "Real_Effective_Exchange_Rate_Index",
                     Diff)
    IN  DeriveRow(f4, "CA_Deficit_Dummy", {"Current_Account_Balance_Pct_GDP"},
                  CA_Deficit_Dummy)

\* 5. carbon efficiency
CarbonEfficiency(f) ==
    LET f1 == DeriveRow(f, "Carbon_Efficiency_Frontier",
                        {"Carbon_Intensity_CO2_Per_GDP"},
                        LAMBDA r : Carbon_Efficiency_Frontier(f.d, r))
        f2 == DeriveRow(f1, "Carbon_Efficiency_Gap",
                        {"Carbon_Intensity_CO2_Per_GDP"}, Carbon_Efficiency_Gap)
    IN  Derive(f2, "Emissions_Reduction_Rate",
               "CO2_Emissions_Per_Capita_Tons", PctChange)

\* 6. period indicators and 7. country group indicators
Indicators(f) ==
    LET f1 == DeriveRow(f, "Period", {}, Period)
        f2 == DeriveRow(f1, "Post_2020", {}, Post_2020)
        f3 == DeriveRow(f2, "Country_Group", {}, Country_Group)
        f4 == DeriveRow(f3, "Is_Turkey", {}, Is_Turkey)
        f5 == DeriveRow(f4, "Is_Green_Leader", {}, Is_Green_Leader)
    IN  DeriveRow(f5, "Is_Turkey_Peer", {}, Is_Turkey_Peer)

\* 8. interaction terms
Interactions(f) ==
    LET f1 == DeriveRow(f, "Green_X_Importer",
                        {"Renewable_Energy_Consumption_Pct"}, Green_X_Importer)
        f2 == DeriveRow(f1, "Green_X_Development",
                        {"Renewable_Energy_Consumption_Pct",
                         "Log_GDP_Per_Capita"}, Green_X_Development)
    IN  DeriveRow(f2, "Green_X_Post2020",
                  {"Renewable_Energy_Consumption_Pct"}, Green_X_Post2020)

CreateDerivedFeaturesFrame(d, cols) ==
    Interactions(Indicators(CarbonEfficiency(
        AddLags(MacroIndicators(EnergyVulnerability(
            GreenDynamics(Frame(SortValues(d), cols)))), 1))))

-----------------------------------------------------------------------------
(* final_cleaning *)

green_vars_in_df(cols) == GREEN_VARS \cap cols

\* rows where all green variables are missing are dropped
GreenFilter(d, cols) ==
    IF green_vars_in_df(cols) # {}
    THEN DropNaAll(d, green_vars_in_df(cols))
    ELSE d

\* outlier rule relative to the frame: rows at the largest magnitude go
InflationFilterRelative(d, cols) ==
    IF "Inflation_CPI_Pct" \in cols
    THEN SelectSeq(d, LAMBDA r :
            /\ ~IsNA(r.v["Inflation_CPI_Pct"])
            /\ \E j \in 1..Len(d) :
                  /\ ~IsNA(d[j].v["Inflation_CPI_Pct"])
                  /\ RLt(RAbs(r.v["Inflation_CPI_Pct"]),
                         RAbs(d[j].v["Inflation_CPI_Pct"])))
    ELSE d

\* df[df['Inflation_CPI_Pct'].abs() < 500]
InflationFilter(d, cols) ==
    IF "Inflation_CPI_Pct" \in cols
    THEN SelectSeq(d, LAMBDA r :
            /\ ~IsNA(r.v["Inflation_CPI_Pct"])
            /\ RLt(RAbs(r.v["Inflation_CPI_Pct"]), Num(500)))
    ELSE d

\* df[df['GDP_Growth_Pct'].between(-50, 50)], both ends inclusive
GrowthFilter(d, cols) ==
    IF "GDP_Growth_Pct" \in cols
    THEN SelectSeq(d, LAMBDA r :
            /\ ~IsNA(r.v["GDP_Growth_Pct"])
            /\ RLe(Num(0 - 50), r.v["GDP_Growth_Pct"])
            /\ RLe(r.v["GDP_Growth_Pct"], Num(50)))
    ELSE d

FinalCleaningDf(d, cols) ==
    GrowthFilter(InflationFilter(GreenFilter(d, cols), cols), cols)

\* rows_before as reset before the outlier filters
OutlierRowsBeforeStale(d, cols) == Len(d)

OutlierRowsBefore(d, cols) == Len(GreenFilter(d, cols))

\* the "Dropped N rows with no green data" and "Removed N extreme outliers"
\* log lines
FinalCleaningReport(d, cols) ==
    (IF green_vars_in_df(cols) # {}
     THEN <<[rule |-> "no_green_data", n |-> Len(d) - Len(GreenFilter(d, cols))]>>
     ELSE <<>>)
    \o <<[rule |-> "extreme_outliers",
          n |-> OutlierRowsBefore(d, cols) - Len(FinalCleaningDf(d, cols))]>>

-----------------------------------------------------------------------------
(* main: the stages as actions *)

SmartImputation ==
    /\ pc = "impute"
    /\ df' = SmartImputationDf(df, columns)
    /\ report' = report \o SmartImputationReport(df, columns)
    /\ pc' = "derive"
    /\ UNCHANGED <<raw, columns, mode, saved>>
    /\ UNCHANGED lvars

CreateDerivedFeatures ==
    /\ pc = "derive"
    /\ df' = CreateDerivedFeaturesFrame(df, columns).d
    /\ columns' = CreateDerivedFeaturesFrame(df, columns).cols
    /\ pc' = "clean"
    /\ UNCHANGED <<raw, mode, report, saved>>
    /\ UNCHANGED lvars

FinalCleaning ==
    /\ pc = "clean"
    /\ df' = FinalCleaningDf(df, columns)
    /\ report' = report \o FinalCleaningReport(df, columns)
    /\ pc' = IF mode = "main" THEN "compare" ELSE "done"
    /\ UNCHANGED <<raw, columns, mode, saved>>
    /\ UNCHANGED lvars

CreateTurkeyComparisonDataset ==
    /\ pc = "compare"
    /\ saved' = saved \cup {"turkey_vs_peers.csv"}
    /\ pc' = "save"
    /\ UNCHANGED <<raw, df, columns, mode, report>>
    /\ UNCHANGED lvars

SaveProcessed ==
    /\ pc = "save"
    /\ saved' = saved \cup {"analysis_ready.csv"}
    /\ pc' = "done"
    /\ UNCHANGED <<raw, df, columns, mode, report>>
    /\ UNCHANGED lvars

Next ==
    \/ SmartImputation
    \/ CreateDerivedFeatures
    \/ FinalCleaning
    \/ CreateTurkeyComparisonDataset
    \/ SaveProcessed

-----------------------------------------------------------------------------
(* The loaders: data_loader.py and dataloader_robust.py *)

\* list(range(config.START_YEAR, config.END_YEAR + 1)); the Python index k
\* is the position k + 1 here
years == [k \in 1..(END_YEAR - START_YEAR + 1) |-> START_YEAR + k - 1]

Min(a, b) == IF a <= b THEN a ELSE b

RECURSIVE Pow2(_)
Pow2(n) == IF n = 0 THEN 1 ELSE 2 * Pow2(n - 1)

\* data_loader.py: years[i + chunk_years - 1] is past the end of the list
DataLoaderIndexError(k, cy) == k + cy - 1 >= Len(years)

\* data_loader.py: chunk_end = min(years[i + chunk_years - 1], END_YEAR)
DataLoaderChunkEnd(k, cy) == Min(years[k + cy - 1 + 1], END_YEAR)

\* dataloader_robust.py: chunk_end = years[min(i + chunk_years - 1,
\* len(years) - 1)]
RobustChunkEnd(k, cy) == years[Min(k + cy - 1, Len(years) - 1) + 1]

\* what one request to the API can do
Outcomes == {"ok", "empty", "raise"}

Request(n, o) == [ev |-> "request", n |-> n, out |-> o]

Sleep(secs) == [ev |-> "sleep", n |-> secs, out |-> "-"]

\* where fetch_with_retry returns to
Return == IF entry = "fetch_with_retry" THEN "done" ELSE "returned"

\* data_loader.fetch_data_chunked: one iteration of the chunk loop; the
\* bounds are computed outside the try, the request inside it
DataLoaderChunk ==
    /\ entry = "data_loader"
    /\ lpc = "loop"
    /\ chunk_i < Len(years)
    /\ IF DataLoaderIndexError(chunk_i, chunk_years)
       THEN /\ lpc' = "IndexError"
            /\ UNCHANGED <<chunk_i, chunk, requested, all_chunks>>
       ELSE \E o \in Outcomes :
            /\ chunk' = <<years[chunk_i + 1], DataLoaderChunkEnd(chunk_i, chunk_years)>>
            /\ requested' = Append(requested, chunk')
            /\ all_chunks' = IF o = "ok" THEN all_chunks + 1 ELSE all_chunks
            /\ chunk_i' = chunk_i + chunk_years
            /\ lpc' = "loop"
    /\ UNCHANGED <<entry, chunk_years, max_retries, delay, attempt, log,
                   result>>
    /\ UNCHANGED pvars

\* dataloader_robust.fetch_data_chunked: the head of one iteration of the
\* chunk loop, up to the call of fetch_with_retry
RobustChunk ==
    /\ entry = "dataloader_robust"
    /\ lpc = "loop"
    /\ chunk_i < Len(years)
    /\ chunk' = <<years[chunk_i + 1], RobustChunkEnd(chunk_i, chunk_years)>>
    /\ requested' = Append(requested, chunk')
    /\ attempt' = 0
    /\ log' = <<>>
    /\ result' = "pending"
    /\ lpc' = "retry"
    /\ UNCHANGED <<entry, chunk_years, max_retries, delay, chunk_i, all_chunks>>
    /\ UNCHANGED pvars

\* fetch_with_retry: one iteration of the attempt loop
Attempt ==
    /\ lpc = "retry"
    /\ attempt < max_retries
    /\ \E o \in Outcomes :
          CASE o = "ok" ->
                  /\ log' = Append(log, Request(attempt, o))
                  /\ result' = "df"
                  /\ lpc' = Return
                  /\ UNCHANGED attempt
            [] o = "empty" ->
                  /\ log' = Append(log, Request(attempt, o))
                  /\ attempt' = attempt + 1
                  /\ UNCHANGED <<result, lpc>>
            [] o = "raise" /\ attempt < max_retries - 1 ->
                  /\ log' = log \o <<Request(attempt, o),
                                     Sleep(delay * Pow2(attempt))>>
                  /\ attempt' = attempt + 1
                  /\ UNCHANGED <<result, lpc>>
            [] o = "raise" /\ ~(attempt < max_retries - 1) ->
                  /\ log' = Append(log, Request(attempt, o))
                  /\ result' = "None"
                  /\ lpc' = Return
                  /\ UNCHANGED attempt
    /\ UNCHANGED <<entry, chunk_years, max_retries, delay, chunk_i, chunk,
                   requested, all_chunks>>
    /\ UNCHANGED pvars

\* fetch_with_retry: the attempt loop is exhausted, return None
RetryExhausted ==
    /\ lpc = "retry"
    /\ attempt >= max_retries
    /\ result' = "None"
    /\ lpc' = Return
    /\ UNCHANGED <<entry, chunk_years, max_retries, delay, chunk_i, chunk,
                   requested, all_chunks, attempt, log>>
    /\ UNCHANGED pvars

\* dataloader_robust.fetch_data_chunked: the rest of the iteration, after
\* fetch_with_retry returned
RobustChunkReturn ==
    /\ lpc = "returned"
    /\ all_chunks' = IF result = "df" THEN all_chunks + 1 ELSE all_chunks
    /\ chunk_i' = chunk_i + chunk_years
    /\ lpc' = "loop"
    /\ UNCHANGED <<entry, chunk_years, max_retries, delay, chunk, requested,
                   attempt, log, result>>
    /\ UNCHANGED pvars

\* fetch_data_chunked of either loader: the chunk loop is over
ChunksDone ==
    /\ lpc = "loop"
    /\ chunk_i >= Len(years)
    /\ result' = IF all_chunks = 0 THEN "empty" ELSE "df"
    /\ lpc' = "done"
    /\ UNCHANGED <<entry, chunk_years, max_retries, delay, chunk_i, chunk,
                   requested, all_chunks, attempt, log>>
    /\ UNCHANGED pvars

NextLoad ==
    \/ DataLoaderChunk
    \/ RobustChunk
    \/ Attempt
    \/ RetryExhausted
    \/ RobustChunkReturn
    \/ ChunksDone

-----------------------------------------------------------------------------
(* Input panels *)

\* a row whose indicator columns all hold x, with the given inflation
PatternRow(c, y, x, infl) ==
    [cc |-> c, yr |-> y,
     v |-> [col \in RawColumns |->
              IF col = "Inflation_CPI_Pct" THEN infl
              ELSE IF col = "GDP_Growth_Pct" THEN Num(3)
              ELSE x]]

Reverse(s) == [i \in 1..Len(s) |-> s[Len(s) + 1 - i]]

Start(panel, cols, m) ==
    /\ raw = panel
    /\ df = panel
    /\ columns = cols
    /\ mode = m
    /\ pc = IF m = "main" THEN "impute" ELSE "clean"
    /\ report = <<>>
    /\ saved = {}
    /\ entry = "none"
    /\ chunk_years = 0
    /\ max_retries = 0
    /\ delay = 0
    /\ lpc = "idle"
    /\ chunk_i = 0
    /\ chunk = <<>>
    /\ requested = <<>>
    /\ all_chunks = 0
    /\ attempt = 0
    /\ log = <<>>
    /\ result = "pending"

FillVals == {NA, Num(1), Num(4)}

\* one country, up to MaxLen consecutive years, every indicator column
\* holding the same pattern; the inflation of year 2 may be missing
InitFill ==
    \E n \in 1..MaxLen :
      \E p \in [1..n -> FillVals], dr \in {0, 2} :
        /\ dr <= n
        /\ Start([i \in 1..n |->
                    PatternRow("AAA", START_YEAR + i - 1, p[i],
                               IF i = dr THEN NA ELSE Num(2))],
                 RawColumns, "main")

InflationVals == {NA, Num(10), Num(0 - 500)}
GrowthVals == {NA, Num(0 - 50), Num(51)}
GreenVals == {NA, Num(5)}

GateRow(i, infl, gdp, ren, cols) ==
    [cc |-> IF i <= 2 THEN "TUR" ELSE "USA",
     yr |-> 2010 + ((i - 1) % 2),
     v |-> [col \in cols |->
              IF col = "Inflation_CPI_Pct" THEN infl
              ELSE IF col = "GDP_Growth_Pct" THEN gdp
              ELSE IF col = "Renewable_Energy_Consumption_Pct" THEN ren
              ELSE Num(1)]]

\* up to MaxRows rows with every combination of outcome and green values,
\* run through main or handed to final_cleaning directly, with all columns,
\* without the green column or without the inflation column
InitGate ==
    \E k \in 1..MaxRows, m \in {"main", "call"},
       cols \in {RawColumns, RawColumns \ {"Renewable_Energy_Consumption_Pct"},
                 RawColumns \ {"Inflation_CPI_Pct"}} :
      \E infl \in [1..k -> InflationVals], gdp \in [1..k -> GrowthVals],
         ren \in [1..k -> GreenVals] :
        /\ "Renewable_Energy_Consumption_Pct" \notin cols
              => \A i \in 1..k : ren[i] = NA
        /\ "Inflation_CPI_Pct" \notin cols
              => \A i \in 1..k : infl[i] = NA
        /\ Start([i \in 1..k |-> GateRow(i, infl[i], gdp[i], ren[i], cols)],
                 cols, m)

LagYears == START_YEAR..(START_YEAR + MaxYears - 1)

\* TUR observed in a subset of the years, with the inflation missing in some
\* of them, followed by two complete USA rows; rows possibly in reverse order
InitLag ==
    \E S \in SUBSET LagYears, rev \in BOOLEAN :
      \E M \in SUBSET S :
        /\ S # {}
        /\ LET all == [i \in 1..MaxYears |->
                         PatternRow("TUR", START_YEAR + i - 1, Num(10 * i),
                                    IF START_YEAR + i - 1 \in M
                                    THEN NA ELSE Num(2))]
               tur == SelectSeq(all, LAMBDA r : r.yr \in S)
               usa == [i \in 1..2 |->
                         PatternRow("USA", START_YEAR + i - 1, Num(7 * i), Num(2))]
               panel == tur \o usa
           IN  Start(IF rev THEN Reverse(panel) ELSE panel, RawColumns, "main")

LeakVals == {NA, Num(1), Num(4)}

LeakRow(c, i, x) ==
    PatternRow(c, START_YEAR + i - 1, x, IF IsNA(x) THEN Num(2) ELSE x)

\* two countries with up to MaxGroup years each
InitLeak ==
    \E nA \in 1..MaxGroup, nB \in 1..MaxGroup :
      \E pA \in [1..nA -> LeakVals], pB \in [1..nB -> LeakVals] :
        Start([i \in 1..nA |-> LeakRow("AAA", i, pA[i])]
              \o [i \in 1..nB |-> LeakRow("BBB", i, pB[i])],
              RawColumns, "main")

\* every indicator column a derivation of create_derived_features reads
DeriveColumns ==
    RawColumns \cup
    {"Renewable_Electricity_NoHydro_Pct", "Fossil_Fuel_Consumption_Pct",
     "Energy_Intensity_Primary_MJ_Per_GDP", "Fuel_Imports_Pct_Merchandise",
     "Trade_Pct_GDP", "GDP_Per_Capita_PPP",
     "Real_Effective_Exchange_Rate_Index",
     "Current_Account_Balance_Pct_GDP", "Carbon_Intensity_CO2_Per_GDP"}

\* indicators that can be negative in a raw file
SignedColumns ==
    {"Current_Account_Balance_Pct_GDP", "Energy_Imports_Net_Pct",
     "Broad_Money_Growth_Pct", "GDP_Per_Capita_PPP"}

\* the second factor of each product, filled from the neighbouring pattern
ShiftedColumns ==
    {"Energy_Intensity_Primary_MJ_Per_GDP", "Trade_Pct_GDP",
     "GDP_Per_Capita_PPP"}

DeriveVals == {NA, Num(0 - 5), Num(0), Num(2)}

DeriveStartYears == {1999, 2007, 2019, 2023}

\* the cell of column col for the pattern value x: the outcomes are always
\* observed, the emissions are observed and non-negative, a share is never
\* negative
DeriveCell(col, x) ==
    IF col = "Inflation_CPI_Pct" THEN Num(2)
    ELSE IF col = "GDP_Growth_Pct" THEN Num(3)
    ELSE IF col = "CO2_Emissions_Per_Capita_Tons"
         THEN IF IsNA(x) THEN Num(4)
              ELSE IF RLt(x, Num(0)) THEN Num(1) ELSE x
    ELSE IF ~IsNA(x) /\ RLt(x, Num(0)) /\ col \notin SignedColumns THEN Num(1)
    ELSE x

DeriveRowOf(c, y, x, z, cols) ==
    [cc |-> c, yr |-> y,
     v |-> [col \in cols |->
              DeriveCell(col, IF col \in ShiftedColumns THEN z ELSE x)]]

\* TUR in up to MaxDerive consecutive years from one of the start years,
\* and one complete row of a second country in the first of them
InitDerive ==
    \E n \in 1..MaxDerive, y0 \in DeriveStartYears,
       c2 \in {"DEU", "POL", "USA"} :
      \E p \in [1..n -> DeriveVals] :
        Start([i \in 1..n |->
                 DeriveRowOf("TUR", y0 + i - 1, p[i], p[(i % n) + 1],
                             DeriveColumns)]
              \o <<DeriveRowOf(c2, y0, Num(1), Num(1), DeriveColumns)>>,
              DeriveColumns, "main")

\* the indicator columns other than the two outcomes
OptionalColumns == DeriveColumns \ outcome_vars

\* TUR in up to MaxSkip consecutive years and one complete USA row, in a
\* raw table that lacks one of the optional columns
InitSkip ==
    \E n \in 1..MaxSkip, X \in OptionalColumns :
      \E p \in [1..n -> DeriveVals] :
        Start([i \in 1..n |->
                 DeriveRowOf("TUR", 2019 + i - 1, p[i], p[(i % n) + 1],
                             DeriveColumns \ {X})]
              \o <<DeriveRowOf("USA", 2019, Num(1), Num(1),
                               DeriveColumns \ {X})>>,
              DeriveColumns \ {X}, "main")

\* one country, up to MaxOrder consecutive years, every indicator column
\* holding the same pattern and every outcome observed; the rows of the raw
\* table in ascending or descending order of the year
InitOrder ==
    \E n \in 1..MaxOrder, rev \in BOOLEAN :
      \E p \in [1..n -> FillVals] :
        LET panel == [i \in 1..n |->
                        PatternRow("AAA", START_YEAR + i - 1, p[i], Num(2))]
        IN  Start(IF rev THEN Reverse(panel) ELSE panel, RawColumns, "main")

Spec == InitGate /\ [][Next]_vars

SpecOrder == InitOrder /\ [][Next]_vars

DelayVals == {1, 10}

\* a call of fetch_data_chunked of either loader with an absent or expired
\* cache, or a call of fetch_with_retry; fetch_data_chunked leaves the delay
\* of fetch_with_retry at its default
InitLoad ==
    /\ raw = <<>> /\ df = <<>> /\ columns = {} /\ mode = "load"
    /\ pc = "load" /\ report = <<>> /\ saved = {}
    /\ entry \in {"data_loader", "dataloader_robust", "fetch_with_retry"}
    /\ chunk_years \in IF entry = "fetch_with_retry" THEN {0} ELSE 1..MaxChunk
    /\ max_retries \in CASE entry = "fetch_with_retry" -> 0..MaxRetries
                         [] entry = "dataloader_robust" -> 1..MaxRetries
                         [] OTHER -> {0}
    /\ delay \in CASE entry = "fetch_with_retry" -> DelayVals
                   [] entry = "dataloader_robust" -> {10}
                   [] OTHER -> {0}
    /\ lpc = IF entry = "fetch_with_retry" THEN "retry" ELSE "loop"
    /\ chunk_i = 0
    /\ chunk = <<>>
    /\ requested = <<>>
    /\ all_chunks = 0
    /\ attempt = 0
    /\ log = <<>>
    /\ result = "pending"

SpecLoad == InitLoad /\ [][NextLoad]_vars

SpecSkip == InitSkip /\ [][Next]_vars

SpecDerive == InitDerive /\ [][Next]_vars

SpecFill == InitFill /\ [][Next]_vars

SpecLag == InitLag /\ [][Next]_vars

SpecLeak == InitLeak /\ [][Next]_vars

-----------------------------------------------------------------------------
(* Properties of the imputation stage *)

\* the rows of country c in the sorted input panel
RawRows(c) == SelectSeq(SortValues(raw), LAMBDA r : r.cc = c)

\* the input Series of column col for country c
RawSeries(c, col) ==
    LET rows == RawRows(c)
    IN  [j \in 1..Len(rows) |-> rows[j].v[col]]

\* position of the year y in the input Series of country c
RawPos(c, y) ==
    LET rows == RawRows(c)
    IN  CHOOSE j \in 1..Len(rows) : rows[j].yr = y

\* the input cell of row r of the frame
RawCell(r, col) == RawSeries(r.cc, col)[RawPos(r.cc, r.yr)]

Imputed == pc = "derive"

\* C1: after smart_imputation every returned row holds, in every volatile
\* column (config.NO_INTERPOLATE), exactly the value the input had for that
\* country and year; a missing volatile value stays missing.
C1_VolatileIdentity ==
    Imputed =>
        \A i \in 1..Len(df) :
            \A col \in NO_INTERPOLATE \cap columns :
                df[i].v[col] = RawCell(df[i], col)

\* a returned row whose volatile value is missing between two known values
C1_Witness ==
    /\ Imputed
    /\ \E i \in 2..(Len(df) - 1) :
          /\ IsNA(df[i].v["Broad_Money_Growth_Pct"])
          /\ ~IsNA(df[i - 1].v["Broad_Money_Growth_Pct"])
          /\ ~IsNA(df[i + 1].v["Broad_Money_Growth_Pct"])
          /\ df[i].cc = df[i - 1].cc /\ df[i].cc = df[i + 1].cc

\* the run of missing input cells around position q of the Series s
RunStart(s, q) == CHOOSE a \in 1..q :
                    /\ \A m \in a..q : IsNA(s[m])
                    /\ (a = 1 \/ ~IsNA(s[a - 1]))
RunEnd(s, q) == CHOOSE b \in q..Len(s) :
                    /\ \A m \in q..b : IsNA(s[m])
                    /\ (b = Len(s) \/ ~IsNA(s[b + 1]))
RunLen(s, q) == RunEnd(s, q) - RunStart(s, q) + 1
IsInterior(s, q) == RunStart(s, q) > 1 /\ RunEnd(s, q) < Len(s)
IsLeading(s, q) == RunStart(s, q) = 1 /\ RunEnd(s, q) < Len(s)
IsTrailing(s, q) == RunEnd(s, q) = Len(s)

\* C2: after smart_imputation no interpolable value is filled inside an
\* interior run of more than 2 consecutive missing years; the years of a
\* 5-year interior gap are still missing.
C2_BoundedGap ==
    Imputed =>
        \A i \in 1..Len(df) :
            \A col \in interpolate_vars(columns) :
                LET s == RawSeries(df[i].cc, col)
                    q == RawPos(df[i].cc, df[i].yr)
                IN  (IsNA(s[q]) /\ IsInterior(s, q) /\ RunLen(s, q) > 2)
                        => IsNA(df[i].v[col])

\* C3: for a structural variable a run of missing years that follows a known
\* value is filled with that value when the run has at most 3 years, and a
\* run of more than 3 years remains missing.
C3_ForwardFillLimit ==
    Imputed =>
        \A i \in 1..Len(df) :
            \A col \in ff_vars(columns) :
                LET s == RawSeries(df[i].cc, col)
                    q == RawPos(df[i].cc, df[i].yr)
                IN  (IsNA(s[q]) /\ RunStart(s, q) > 1) =>
                        IF RunLen(s, q) <= 3
                        THEN df[i].v[col] = s[RunStart(s, q) - 1]
                        ELSE IsNA(df[i].v[col])

\* C4: an interior gap of n <= 2 missing years between the known values a
\* and b of an interpolable variable is filled at its i-th year with
\* a + i*(b-a)/(n+1), and a missing value on the trailing edge stays absent.
C4_LinearInterpolation ==
    Imputed =>
        \A i \in 1..Len(df) :
            \A col \in interpolate_vars(columns) :
                LET s == RawSeries(df[i].cc, col)
                    q == RawPos(df[i].cc, df[i].yr)
                IN  /\ (IsNA(s[q]) /\ IsInterior(s, q) /\ RunLen(s, q) <= 2) =>
                          LET a == s[RunStart(s, q) - 1]
                              b == s[RunEnd(s, q) + 1]
                              n == RunLen(s, q)
                              k == q - RunStart(s, q) + 1
                          IN  /\ ~IsNA(df[i].v[col])
                              /\ RMul(df[i].v[col], Num(n + 1))
                                    = RAdd(RMul(a, Num(n + 1)),
                                           RMul(Num(k), RSub(b, a)))
                    /\ (IsNA(s[q]) /\ IsTrailing(s, q)) => IsNA(df[i].v[col])

\* the Series 1, absent, absent, 4, absent has become 1, 2, 3, 4, absent
C4_Witness ==
    /\ Imputed
    /\ RawSeries("AAA", "Energy_Imports_Net_Pct")
          = <<Num(1), NA, NA, Num(4), NA>>
    /\ Len(df) = 5
    /\ [i \in 1..5 |-> df[i].v["Energy_Imports_Net_Pct"]]
          = <<Num(1), Num(2), Num(3), Num(4), NA>>

\* C5: for a structural or interpolable variable whose Series starts with
\* missing years, the year immediately before the first known value takes
\* that value, and every earlier leading year remains missing.
C5_LeadingBackfill ==
    Imputed =>
        \A i \in 1..Len(df) :
            \A col \in ff_vars(columns) \cup interpolate_vars(columns) :
                LET s == RawSeries(df[i].cc, col)
                    q == RawPos(df[i].cc, df[i].yr)
                IN  (IsNA(s[q]) /\ IsLeading(s, q)) =>
                        IF q = RunEnd(s, q)
                        THEN df[i].v[col] = s[q + 1]
                        ELSE IsNA(df[i].v[col])

\* a Series whose first known value is at its third year: the second year
\* is filled and the first is still missing
C5_Witness ==
    /\ Imputed
    /\ Len(df) >= 3
    /\ LET s == RawSeries("AAA", "Renewable_Energy_Consumption_Pct")
       IN  IsNA(s[1]) /\ IsNA(s[2]) /\ ~IsNA(s[3])
    /\ df[1].yr = START_YEAR /\ df[2].yr = START_YEAR + 1
    /\ IsNA(df[1].v["Renewable_Energy_Consumption_Pct"])
    /\ ~IsNA(df[2].v["Renewable_Energy_Consumption_Pct"])
    /\ IsNA(df[1].v["CO2_Emissions_Per_Capita_Tons"])
    /\ ~IsNA(df[2].v["CO2_Emissions_Per_Capita_Tons"])

-----------------------------------------------------------------------------
(* No cross-Series leakage *)

RowsOf(d, c) == SelectSeq(d, LAMBDA r : r.cc = c)

\* the columns that are filled or derived within a Series
WithinSeriesCols ==
    RawColumns \cup
    {"Green_Transition_Speed", "Inflation_Volatility_3Y",
     "GDP_Growth_Volatility_3Y", "Emissions_Reduction_Rate"} \cup
    {LagName(lag_vars[n], k) : n \in 1..Len(lag_vars), k \in 1..2}

Restrict(d, cs) ==
    [i \in 1..Len(d) |->
        [cc |-> d[i].cc, yr |-> d[i].yr,
         v |-> [c \in (DOMAIN d[i].v) \cap cs |-> d[i].v[c]]]]

\* the input panel with the values of country AAA replaced by the pattern q
Perturbed(q) ==
    [i \in 1..Len(raw) |->
        IF raw[i].cc = "AAA"
        THEN LeakRow("AAA", raw[i].yr - START_YEAR + 1,
                     q[raw[i].yr - START_YEAR + 1])
        ELSE raw[i]]

Perturbations == [1..Len(RowsOf(raw, "AAA")) -> LeakVals]

ImputedOf(panel) == SmartImputationDf(panel, RawColumns)

DerivedOf(panel) == CreateDerivedFeaturesFrame(ImputedOf(panel), RawColumns).d

-----------------------------------------------------------------------------
(* Lags *)

HasRow(d, c, y) == \E j \in 1..Len(d) : d[j].cc = c /\ d[j].yr = y

RowAt(d, c, y) == d[CHOOSE j \in 1..Len(d) : d[j].cc = c /\ d[j].yr = y]

\* C7: in the table after create_derived_features, <var>_Lag<k> at
\* (country, year) is the variable's value at (country, year - k), and is
\* absent when the table has no such earlier year.
C7_LagCorrectness ==
    pc = "clean" =>
        \A i \in 1..Len(df) :
            \A n \in 1..Len(lag_vars), k \in 1..2 :
                lag_vars[n] \in columns =>
                    df[i].v[LagName(lag_vars[n], k)] =
                        IF HasRow(df, df[i].cc, df[i].yr - k)
                        THEN RowAt(df, df[i].cc, df[i].yr - k).v[lag_vars[n]]
                        ELSE NA

-----------------------------------------------------------------------------
(* Quality gate *)

Cleaned == pc \in {"compare", "save", "done"}

\* C8: final_cleaning applied to its own output returns the same rows and
\* counts no removed row.
C8_GateIdempotent ==
    Cleaned =>
        /\ FinalCleaningDf(df, columns) = df
        /\ \A e \in 1..Len(FinalCleaningReport(df, columns)) :
              FinalCleaningReport(df, columns)[e].n = 0

\* final_cleaning was called on a panel with a missing outcome and removed
\* rows, and kept a row exactly on the growth bound
C8_Witness ==
    /\ mode = "call" /\ pc = "done"
    /\ \E j \in 1..Len(raw) : IsNA(raw[j].v["Inflation_CPI_Pct"])
    /\ Len(df) < Len(raw)
    /\ \E i \in 1..Len(df) : df[i].v["GDP_Growth_Pct"] = Num(0 - 50)

RECURSIVE SumCounts(_)
SumCounts(rep) == IF rep = <<>> THEN 0 ELSE Head(rep).n + SumCounts(Tail(rep))

\* C9: at every stage the number of input rows is the number of rows held
\* plus the sum of the removal counts reported so far.
C9_RowAccounting == Len(raw) = Len(df) + SumCounts(report)

\* a finished run of main in which all three rules reported, the green
\* rule removed rows and another rule removed none
C9_Witness ==
    /\ mode = "main" /\ pc = "done"
    /\ Len(report) = 3
    /\ Len(df) < Len(raw)
    /\ \E e \in 1..3 : report[e].n = 0
    /\ \E e \in 1..3 : report[e].rule = "no_green_data" /\ report[e].n > 0

OutcomeMissing(r) ==
    IsNA(r.v["Inflation_CPI_Pct"]) \/ IsNA(r.v["GDP_Growth_Pct"])

\* C10: the rows smart_imputation returns are exactly the input rows whose
\* Inflation_CPI_Pct and GDP_Growth_Pct are both present, each as the fill
\* passes left it, and the reported count is the number of the other rows.
C10_OutcomeRule ==
    (Imputed /\ outcome_vars \subseteq columns) =>
        /\ \A j \in 1..Len(raw) :
              HasRow(df, raw[j].cc, raw[j].yr) <=> ~OutcomeMissing(raw[j])
        /\ \A i \in 1..Len(df) :
              /\ HasRow(raw, df[i].cc, df[i].yr)
              /\ df[i] = RowAt(FillPasses(raw, columns), df[i].cc, df[i].yr)
        /\ Len(df) = Cardinality({j \in 1..Len(raw) : ~OutcomeMissing(raw[j])})
        /\ report = <<[rule |-> "outcome_missing",
                       n |-> Cardinality({j \in 1..Len(raw) :
                                            OutcomeMissing(raw[j])})]>>

\* TUR 2010 without and TUR 2011 with its outcome: the 2010 row is removed
\* and the count is 1
C10_Witness ==
    /\ Imputed
    /\ Len(raw) = 2
    /\ raw[1].cc = "TUR" /\ raw[1].yr = 2010 /\ OutcomeMissing(raw[1])
    /\ raw[2].cc = "TUR" /\ raw[2].yr = 2011 /\ ~OutcomeMissing(raw[2])
    /\ Len(df) = 1 /\ df[1].yr = 2011
    /\ report[1].n = 1

-----------------------------------------------------------------------------
(* Derived features *)

\* the table create_derived_features has just returned
Derived == pc = "clean"

\* the cell of column col at (c, y), absent when the table has no such row
CellAt(d, c, y, col) == IF HasRow(d, c, y) THEN RowAt(d, c, y).v[col] ELSE NA

\* the value columns each row-wise derivation reads
RowInputs ==
    [Energy_Vulnerability_Index |->
        {"Energy_Imports_Net_Pct", "Energy_Intensity_Primary_MJ_Per_GDP"},
     Fuel_Import_Exposure |-> {"Fuel_Imports_Pct_Merchandise", "Trade_Pct_GDP"},
     Log_GDP_Per_Capita |-> {"GDP_Per_Capita_PPP"},
     CA_Deficit_Dummy |-> {"Current_Account_Balance_Pct_GDP"},
     Carbon_Efficiency_Gap |-> {"Carbon_Intensity_CO2_Per_GDP"},
     Green_X_Importer |-> {"Renewable_Energy_Consumption_Pct"},
     Green_X_Development |->
        {"Renewable_Energy_Consumption_Pct", "GDP_Per_Capita_PPP"},
     Green_X_Post2020 |-> {"Renewable_Energy_Consumption_Pct"}]

\* the column each year-over-year derivation reads
ChangeSource ==
    [Green_Transition_Speed |-> "Renewable_Energy_Consumption_Pct",
     Modern_Renewables_Growth |-> "Renewable_Electricity_NoHydro_Pct",
     Fossil_Reduction_Rate |-> "Fossil_Fuel_Consumption_Pct",
     REER_Change |-> "Real_Effective_Exchange_Rate_Index",
     Emissions_Reduction_Rate |-> "CO2_Emissions_Per_Capita_Tons"]

RowwisePropagates(r) ==
    \A new \in DOMAIN RowInputs \cap columns :
        (\E c \in RowInputs[new] : IsNA(r.v[c])) => IsNA(r.v[new])

ChangePropagates(r) ==
    \A new \in DOMAIN ChangeSource \cap columns :
        (\/ IsNA(r.v[ChangeSource[new]])
         \/ IsNA(CellAt(df, r.cc, r.yr - 1, ChangeSource[new])))
            => IsNA(r.v[new])

LagPropagates(r) ==
    \A n \in 1..Len(lag_vars), k \in 1..2 :
        (lag_vars[n] \in columns
            /\ IsNA(CellAt(df, r.cc, r.yr - k, lag_vars[n])))
            => IsNA(r.v[LagName(lag_vars[n], k)])

\* C11: in the table after create_derived_features, a derived column
\* computed from value columns (difference, product or interaction,
\* Log_GDP_Per_Capita, CA_Deficit_Dummy, Carbon_Efficiency_Gap, percent
\* change, lag) is absent in every row where one of its inputs is absent; a
\* missing input is never turned into 0 or another number.
C11_MissingnessPropagation ==
    Derived =>
        \A i \in 1..Len(df) :
            /\ RowwisePropagates(df[i])
            /\ ChangePropagates(df[i])
            /\ LagPropagates(df[i])

\* C12: Emissions_Reduction_Rate at (country, year) is
\* (v(year) - v(year - 1)) / v(year - 1) of CO2_Emissions_Per_Capita_Tons of
\* that country, and is absent whenever v(year) or v(year - 1) is absent or
\* v(year - 1) is zero: never infinite, never taken from an older value.
C12_PercentChange ==
    (Derived /\ "CO2_Emissions_Per_Capita_Tons" \in columns) =>
        \A i \in 1..Len(df) :
            LET cur  == df[i].v["CO2_Emissions_Per_Capita_Tons"]
                prev == CellAt(df, df[i].cc, df[i].yr - 1,
                               "CO2_Emissions_Per_Capita_Tons")
            IN  df[i].v["Emissions_Reduction_Rate"] =
                    IF IsNA(cur) \/ IsNA(prev) THEN NA
                    ELSE IF prev[1] = 0 THEN NA
                    ELSE ODiv(RSub(cur, prev), prev)

\* the index of the range of PERIOD_LABELS that holds year y, 0 when none does
ConfigPeriod(y) ==
    IF \E k \in 1..Len(PERIOD_LABELS) :
          PERIOD_LABELS[k].lo <= y /\ y <= PERIOD_LABELS[k].hi
    THEN CHOOSE k \in 1..Len(PERIOD_LABELS) :
          PERIOD_LABELS[k].lo <= y /\ y <= PERIOD_LABELS[k].hi
    ELSE 0

\* C13: every row of the table after create_derived_features has a year
\* inside one of the ranges of PERIOD_LABELS (a row outside all of them
\* aborts the run instead), carries a Period label, and two rows share their
\* label exactly when their years lie in the same configured range.
C13_PeriodBucketing ==
    Derived =>
        \A i \in 1..Len(df) :
            /\ ConfigPeriod(df[i].yr) # 0
            /\ ~IsNA(df[i].v["Period"])
            /\ \A j \in 1..Len(df) :
                  df[i].v["Period"] = df[j].v["Period"]
                      <=> ConfigPeriod(df[i].yr) = ConfigPeriod(df[j].yr)

\* max(x, 0)
ClipLower0(x) == IF RLt(x, Num(0)) THEN Num(0) ELSE x

\* C14: Log_GDP_Per_Capita is ln(1 + max(GDP_Per_Capita_PPP, 0)): a negative
\* input counts as zero, so every non-missing input gives a finite
\* logarithm of a number >= 1 (a result >= 0); a missing input gives a
\* missing result.
C14_LogTransform ==
    (Derived /\ "GDP_Per_Capita_PPP" \in columns) =>
        \A i \in 1..Len(df) :
            LET x == df[i].v["GDP_Per_Capita_PPP"]
            IN  df[i].v["Log_GDP_Per_Capita"] =
                    IF IsNA(x) THEN NA
                    ELSE <<"log1p", ClipLower0(x)[1], ClipLower0(x)[2]>>

-----------------------------------------------------------------------------
(* Configured sanity bounds *)

\* row r is inside the bounds of config.py on the outcome columns it has
WithinConfigBounds(r) ==
    /\ "Inflation_CPI_Pct" \in DOMAIN r.v =>
          /\ ~IsNA(r.v["Inflation_CPI_Pct"])
          /\ RLt(RAbs(r.v["Inflation_CPI_Pct"]),
                 Num(OUTLIER_THRESHOLD_INFLATION))
    /\ "GDP_Growth_Pct" \in DOMAIN r.v =>
          /\ ~IsNA(r.v["GDP_Growth_Pct"])
          /\ RLe(RAbs(r.v["GDP_Growth_Pct"]),
                 Num(OUTLIER_THRESHOLD_GDP_GROWTH))

\* row r has a value in one of the green columns it has, if it has any
HasGreenData(r) ==
    GREEN_VARS \cap DOMAIN r.v # {} =>
        \E c \in GREEN_VARS \cap DOMAIN r.v : ~IsNA(r.v[c])

\* C15: the outlier rule of final_cleaning follows config.py: every row of
\* the cleaned table has |inflation| below OUTLIER_THRESHOLD_INFLATION and
\* GDP growth within +-OUTLIER_THRESHOLD_GDP_GROWTH, and of a table handed
\* to final_cleaning exactly the rows with green data and inside these
\* bounds are kept.
C15_ConfigurableBounds ==
    Cleaned =>
        /\ \A i \in 1..Len(df) : WithinConfigBounds(df[i])
        /\ mode = "call" =>
              \A j \in 1..Len(raw) :
                  HasRow(df, raw[j].cc, raw[j].yr)
                      <=> (HasGreenData(raw[j]) /\ WithinConfigBounds(raw[j]))

-----------------------------------------------------------------------------
(* Stages of main *)

\* C16: a run of main on a table that lacks a designated outcome column
\* aborts before any output: the cleaned table is never produced, no file
\* is saved and the run never completes.
C16_AbsentOutcomeFatal ==
    (mode = "main" /\ ~(outcome_vars \subseteq columns)) =>
        /\ ~Cleaned
        /\ saved = {}

-----------------------------------------------------------------------------
(* Absent optional columns *)

\* the columns of the raw table of the run
RawCols == DOMAIN raw[1].v

\* the values tried for a column the raw table lacks
SkipVals == {NA, Num(2)}

\* the raw table with the column X added, holding xs[i] in row i
WithColumn(X, xs) ==
    [i \in 1..Len(raw) |-> [raw[i] EXCEPT !.v = (X :> xs[i]) @@ raw[i].v]]

\* the derived columns whose derivation reads X, directly or through
\* another derived column
Dependents(X) ==
    {new \in DOMAIN RowInputs : X \in RowInputs[new]}
    \cup {new \in DOMAIN ChangeSource : ChangeSource[new] = X}
    \cup {LagName(lag_vars[n], k) : n \in {m \in 1..Len(lag_vars) :
                \/ lag_vars[m] = X
                \/ /\ lag_vars[m] \in DOMAIN ChangeSource
                   /\ ChangeSource[lag_vars[m]] = X}, k \in 1..2}
    \cup (IF X = "Carbon_Intensity_CO2_Per_GDP"
          THEN {"Carbon_Efficiency_Frontier"} ELSE {})

\* C17: when the raw table lacks an optional indicator column X (one named
\* in FORWARD_FILL_OK or NO_INTERPOLATE or read by a derivation, not an
\* outcome), smart_imputation and create_derived_features complete, and
\* whatever values X would hold, every column of their result is the one
\* the run with X gives; the run with X has no other additional columns
\* than X and the columns derived from X.
C17_OptionalColumnSkipped ==
    \A X \in OptionalColumns \ RawCols :
        \A xs \in [1..Len(raw) -> SkipVals] :
            LET full == SmartImputationDf(WithColumn(X, xs), RawCols \cup {X})
                res  == CreateDerivedFeaturesFrame(full, RawCols \cup {X})
            IN  /\ pc = "derive" => Restrict(full, columns) = df
                /\ pc = "clean" =>
                      /\ Restrict(res.d, columns) = df
                      /\ columns \subseteq res.cols
                      /\ res.cols \ columns \subseteq {X} \cup Dependents(X)

\* the table lacks Fossil_Fuel_Consumption_Pct: Fossil_Reduction_Rate is
\* not derived, while the missing energy intensity of TUR 2020 is forward
\* filled and the energy vulnerability index is derived from it
C17_Witness ==
    /\ Derived
    /\ "Fossil_Fuel_Consumption_Pct" \notin columns
    /\ "Fossil_Reduction_Rate" \notin columns
    /\ HasRow(raw, "TUR", 2020)
    /\ IsNA(RowAt(raw, "TUR", 2020).v["Energy_Intensity_Primary_MJ_Per_GDP"])
    /\ ~IsNA(RowAt(df, "TUR", 2020).v["Energy_Intensity_Primary_MJ_Per_GDP"])
    /\ ~IsNA(RowAt(df, "TUR", 2020).v["Energy_Vulnerability_Index"])

-----------------------------------------------------------------------------
(* The frame of create_derived_features *)

\* C18: create_derived_features only appends columns: it returns one row
\* for every row it is given and no other row, every column of its input is
\* a column of its output, and every cell of the input has the same value
\* in the output.
C18_OnlyAppends ==
    [][pc = "derive" =>
          /\ Len(df') = Len(df)
          /\ columns \subseteq columns'
          /\ \A i \in 1..Len(df) :
                /\ HasRow(df', df[i].cc, df[i].yr)
                /\ \A c \in columns :
                      RowAt(df', df[i].cc, df[i].yr).v[c] = df[i].v[c]
          /\ \A j \in 1..Len(df') : HasRow(df, df'[j].cc, df'[j].yr)]_vars

\* three rows went through create_derived_features; TUR 2008 kept its GDP
\* per capita of 2 and got the logarithm next to it
C18_Witness ==
    /\ Derived
    /\ Len(df) = 3
    /\ "Log_GDP_Per_Capita" \in columns
    /\ HasRow(df, "TUR", 2008)
    /\ RowAt(df, "TUR", 2008).v["GDP_Per_Capita_PPP"] = Num(2)
    /\ RowAt(df, "TUR", 2008).v["Log_GDP_Per_Capita"] = <<"log1p", 2, 1>>
    /\ RowAt(raw, "TUR", 2008).v["GDP_Per_Capita_PPP"] = Num(2)

-----------------------------------------------------------------------------
(* Where rows are removed *)

-----------------------------------------------------------------------------
(* Membership dummies *)

\* the configured set behind each membership dummy
MembershipSet ==
    [Is_Energy_Importer |-> ENERGY_IMPORTERS,
     Is_Green_Leader |-> GREEN_LEADERS,
     Is_Turkey_Peer |-> TURKEY_PEERS_EMERGING,
     Is_Turkey |-> {"TUR"}]

\* C20: in every row of the table after create_derived_features, whatever
\* its year and its other columns, each of Is_Energy_Importer,
\* Is_Green_Leader, Is_Turkey_Peer and Is_Turkey is 1 when the country code
\* of the row is in the set configured for it and 0 otherwise.
C20_MembershipDummies ==
    Derived =>
        \A i \in 1..Len(df) : \A dummy \in DOMAIN MembershipSet :
            df[i].v[dummy] =
                IF df[i].cc \in MembershipSet[dummy] THEN Num(1) ELSE Num(0)

\* a TUR row and a USA row: the peer dummy is 1 and 0, in a Pandemic year
\* with a missing renewable share in the TUR row
C20_Witness ==
    /\ Derived
    /\ \E i \in 1..Len(df), j \in 1..Len(df) :
          /\ df[i].cc = "TUR" /\ df[i].v["Is_Turkey_Peer"] = Num(1)
          /\ df[i].yr = 2020
          /\ IsNA(df[i].v["Renewable_Electricity_NoHydro_Pct"])
          /\ df[i].v["Is_Green_Leader"] = Num(0)
          /\ df[j].cc = "USA" /\ df[j].v["Is_Turkey_Peer"] = Num(0)
          /\ df[j].v["Is_Energy_Importer"] = Num(0)

-----------------------------------------------------------------------------
(* Rolling volatility *)

\* the observations of column col of the country of row r in the years
\* r.yr - 2, r.yr - 1 and r.yr, absent where the table has no such year
YearWindow(r, col) ==
    <<CellAt(df, r.cc, r.yr - 2, col), CellAt(df, r.cc, r.yr - 1, col),
      CellAt(df, r.cc, r.yr, col)>>

\* the rolling column of each outcome
VolatilitySource ==
    [Inflation_Volatility_3Y |-> "Inflation_CPI_Pct",
     GDP_Growth_Volatility_3Y |-> "GDP_Growth_Pct"]

-----------------------------------------------------------------------------
(* Carbon efficiency frontier *)

\* the non-missing carbon intensities of the rows of year y
YearValues(d, y) ==
    {d[j].v["Carbon_Intensity_CO2_Per_GDP"] : j \in
        {k \in 1..Len(d) :
            d[k].yr = y /\ ~IsNA(d[k].v["Carbon_Intensity_CO2_Per_GDP"])}}

\* the values tried in the rows of the other years
OtherYearVals == {NA, Num(0)}

\* the table with the carbon intensity of every row of a year other than y
\* replaced by q
OtherYearsReplaced(y, q) ==
    [j \in 1..Len(df) |->
        IF df[j].yr = y THEN df[j]
        ELSE [df[j] EXCEPT !.v["Carbon_Intensity_CO2_Per_GDP"] = q[j]]]

\* C22: in the table after create_derived_features, Carbon_Efficiency_Frontier
\* of a row is the least non-missing Carbon_Intensity_CO2_Per_GDP of the rows
\* of its year, Carbon_Efficiency_Gap is value / frontier (absent when the
\* value is), both are absent in a year where no row has a value, and the
\* frontier of a year is the same whatever the other years hold.
C22_FrontierGap ==
    (Derived /\ "Carbon_Intensity_CO2_Per_GDP" \in columns) =>
        \A i \in 1..Len(df) :
            LET S  == YearValues(df, df[i].yr)
                x  == df[i].v["Carbon_Intensity_CO2_Per_GDP"]
                fr == df[i].v["Carbon_Efficiency_Frontier"]
                gp == df[i].v["Carbon_Efficiency_Gap"]
            IN  /\ S = {} => IsNA(fr) /\ IsNA(gp)
                /\ S # {} => fr \in S /\ \A z \in S : RLe(fr, z)
                /\ IsNA(x) => IsNA(gp)
                /\ (~IsNA(x) /\ fr[1] # 0) =>
                      ~IsNA(gp) /\ RMul(gp, fr) = x
                /\ \A q \in [1..Len(df) -> OtherYearVals] :
                      Carbon_Efficiency_Frontier(
                          OtherYearsReplaced(df[i].yr, q), df[i]) = fr

\* 2019 has TUR at 2 and USA at 1: the frontier is 1 in both rows and the
\* gap of TUR is 2; TUR 2021 is the only row of its year and has no value,
\* so its frontier and gap are absent
C22_Witness ==
    /\ Derived
    /\ HasRow(df, "TUR", 2019) /\ HasRow(df, "USA", 2019)
    /\ HasRow(df, "TUR", 2021)
    /\ RowAt(df, "TUR", 2019).v["Carbon_Intensity_CO2_Per_GDP"] = Num(2)
    /\ RowAt(df, "TUR", 2019).v["Carbon_Efficiency_Frontier"] = Num(1)
    /\ RowAt(df, "USA", 2019).v["Carbon_Efficiency_Frontier"] = Num(1)
    /\ RowAt(df, "TUR", 2019).v["Carbon_Efficiency_Gap"] = Num(2)
    /\ IsNA(RowAt(df, "TUR", 2021).v["Carbon_Intensity_CO2_Per_GDP"])
    /\ IsNA(RowAt(df, "TUR", 2021).v["Carbon_Efficiency_Frontier"])
    /\ IsNA(RowAt(df, "TUR", 2021).v["Carbon_Efficiency_Gap"])

-----------------------------------------------------------------------------
(* Order of the fill passes *)

\* the value a forward pass gives the missing cell q of the input Series s,
\* computed from the input values alone: the last known value up to 3 years
\* back for a forward-fill column, the point on the line between the known
\* neighbours in the first 2 years of an interior gap for an interpolated
\* column, absent otherwise
ForwardValue(s, q, col) ==
    IF ~HasPrev(s, q) THEN NA
    ELSE IF col \in FORWARD_FILL_OK
         THEN IF q - PrevIdx(s, q) <= 3 THEN s[PrevIdx(s, q)] ELSE NA
    ELSE IF HasNext(s, q) /\ q - PrevIdx(s, q) <= 2
         THEN LET a == s[PrevIdx(s, q)]
                  b == s[NextIdx(s, q)]
              IN  RAdd(a, RDivInt(RMul(Num(q - PrevIdx(s, q)), RSub(b, a)),
                                  NextIdx(s, q) - PrevIdx(s, q)))
    ELSE NA

\* C23: the table smart_imputation returns is ordered by (country, year),
\* and in every filled column a cell missing in the input holds the value
\* the forward pass (forward fill or interpolation) computes from the
\* input values alone; only a cell the forward pass leaves missing takes
\* the input value of the next year, by the one backward fill that follows.
C23_FillPassOrder ==
    Imputed =>
        /\ \A i \in 1..Len(df), j \in 1..Len(df) :
              i < j => RowLess(df[i], df[j])
        /\ \A i \in 1..Len(df) :
              \A col \in BackwardFillCols(columns) :
                  LET s == RawSeries(df[i].cc, col)
                      q == RawPos(df[i].cc, df[i].yr)
                  IN  df[i].v[col] =
                          IF ~IsNA(s[q]) THEN s[q]
                          ELSE IF ~IsNA(ForwardValue(s, q, col))
                               THEN ForwardValue(s, q, col)
                          ELSE IF q < Len(s) THEN s[q + 1]
                          ELSE NA

\* the raw rows come in descending order of the year; the Series absent, 1,
\* absent, 4 of an interpolated column has become 1, 1, 5/2, 4: the leading
\* cell by the backward fill, the interior cell from its two input
\* neighbours
C23_Witness ==
    /\ Imputed
    /\ Len(raw) = 4 /\ Len(df) = 4
    /\ raw[1].yr = START_YEAR + 3 /\ raw[4].yr = START_YEAR
    /\ IsNA(raw[4].v["Energy_Imports_Net_Pct"])
    /\ raw[3].v["Energy_Imports_Net_Pct"] = Num(1)
    /\ IsNA(raw[2].v["Energy_Imports_Net_Pct"])
    /\ raw[1].v["Energy_Imports_Net_Pct"] = Num(4)
    /\ df[1].yr = START_YEAR
    /\ df[1].v["Energy_Imports_Net_Pct"] = Num(1)
    /\ df[3].v["Energy_Imports_Net_Pct"] = <<5, 2>>
    /\ df[4].v["Energy_Imports_Net_Pct"] = Num(4)

-----------------------------------------------------------------------------
(* Retry with backoff *)

\* the positions of the requests in the log of fetch_with_retry
Requests == {p \in 1..Len(log) : log[p].ev = "request"}

\* fetch_with_retry has returned
RetryReturned ==
    \/ entry = "fetch_with_retry" /\ lpc = "done"
    \/ lpc = "returned"

\* C24: fetch_with_retry makes at most max_retries requests, returns the
\* first non-empty response without a further request, returns None once
\* every one of the max_retries requests has failed, sleeps
\* delay * 2^attempt seconds between a request that raised or came back
\* empty and the next request, and does not sleep after the last request.
C24_RetryBackoff ==
    entry \in {"fetch_with_retry", "dataloader_robust"} =>
        /\ Cardinality(Requests) <= max_retries
        /\ \A p \in Requests :
              /\ log[p].out = "ok" => p = Len(log) /\ lpc # "retry"
              /\ (\E q \in Requests : q > p) =>
                    /\ p + 1 \in 1..Len(log)
                    /\ log[p + 1] = Sleep(delay * Pow2(log[p].n))
        /\ RetryReturned =>
              /\ log # <<>> => log[Len(log)].ev = "request"
              /\ result = "df" <=>
                    (log # <<>> /\ log[Len(log)].out = "ok")
              /\ result = "None" <=>
                    /\ Cardinality(Requests) = max_retries
                    /\ \A p \in Requests : log[p].out # "ok"

-----------------------------------------------------------------------------
(* Chunk coverage *)

\* C25: in both loaders fetch_data_chunked never fails while it computes
\* the bounds of a chunk, the year ranges it asks for are contiguous and
\* ascending from START_YEAR and stay within START_YEAR..END_YEAR, and once
\* the loop is over they end at END_YEAR, so that every year has been asked
\* for exactly once.
C25_ChunkCoverage ==
    entry \in {"data_loader", "dataloader_robust"} =>
        /\ lpc # "IndexError"
        /\ \A k \in 1..Len(requested) :
              /\ requested[k][1] <= requested[k][2]
              /\ requested[k][2] <= END_YEAR
              /\ requested[k][1] =
                    IF k = 1 THEN START_YEAR ELSE requested[k - 1][2] + 1
        /\ lpc = "done" =>
              /\ requested # <<>>
              /\ requested[Len(requested)][2] = END_YEAR

====
